---------------------------- MODULE Spec2Model ----------------------------
(***************************************************************************)
(* Model of the texcreate compiler configuration (src/src/lib.rs):         *)
(* struct Compiler, enum CompilerMode, and the operations new, from_file,  *)
(* to_string, create_file, output, spawn and compile.                      *)
(*                                                                         *)
(* A Rust String is a sequence of symbols.  A string literal of the source *)
(* is one symbol; the symbols Quote, Backslash, Newline and "n" are the    *)
(* characters the TOML text layer treats specially.                        *)
(***************************************************************************)
EXTENDS Naturals, Sequences, FiniteSets

VARIABLES
    cfg,        \* the Compiler value held by the caller: <<>> or <<c>>
    fs,         \* file system: path -> [exists, text]
    dirs,       \* the project directories that exist in the working directory
    io,         \* file accesses attempted by the last operation: [op, kind, path, ok]
    lastOp,     \* the last operation called
    newArg,     \* the project name given to the last new: <<>> or <<p>>
    prevOp,     \* the operation called before it
    loadResult, \* outcome of the last from_file
    saveResult, \* outcome of the last create_file
    preCreate,  \* did ./compiler.toml exist when the last create_file began
    pc,         \* position of compile(): Idle, Invoking, Cleaning, CleaningLog, Done, Failed
    proc,       \* the compiler subprocess: none, running, exited
    status,     \* its exit status once exited
    cmd,        \* the command handed to the operating system: <<>> or <<c>>
    waited,     \* outcome of awaiting the subprocess: none, Ok, Err
    notified,   \* was the success message printed
    result,     \* what compile() gave its caller: none, Ok, IoErr, Panic
    text,       \* round trip: the TOML text produced by to_string: <<>> or <<t>>
    parsed      \* round trip: what from_str made of it: <<>> or <<r>>

vars == <<cfg, fs, dirs, io, lastOp, newArg, prevOp, loadResult, saveResult, preCreate,
          pc, proc, status, cmd, waited, notified, result, text, parsed>>

persistVars == <<lastOp, newArg, prevOp, loadResult, saveResult, preCreate>>
compileVars == <<pc, proc, status, cmd, waited, notified, result>>
rtVars == <<text, parsed>>

----------------------------------------------------------------------------
(* Bounds of the model *)

\* longest flags vector
MaxFlags == 2
\* longest string drawn for the round trip
MaxStr == 2

----------------------------------------------------------------------------
(* Strings *)

Quote == "\""
Backslash == "\\"
Newline == "\n"

Pdflatex == <<"pdflatex">>
OutDirArg == <<"-output-directory=out">>
OutDir == <<"out">>
CfgFile == <<"compiler.toml">>
AuxExt == <<".aux">>
LogExt == <<".log">>
SpawnName == <<"Spawn">>
OutputName == <<"Output">>

SeqsUpTo(S, n) == UNION {[1..k -> S] : k \in 0..n}

----------------------------------------------------------------------------
(* struct Compiler, enum CompilerMode *)

CompilerMode == {"Spawn", "Output"}

MkCompiler(c, p, f, cl, m) ==
    [compiler |-> c, proj_name |-> p, flags |-> f, clean |-> cl, mode |-> m]

\* new() with the clean-up switched off by default
newNoClean(proj_name) == MkCompiler(Pdflatex, proj_name, <<>>, FALSE, "Output")

\* Compiler::new
new(proj_name) == MkCompiler(Pdflatex, proj_name, <<>>, TRUE, "Output")

----------------------------------------------------------------------------
(* The TOML text: a document is a sequence of key/value entries; a string  *)
(* value is kept as the body of a TOML basic string, with its escapes.     *)

EscapeChar(ch) ==
    IF ch = Quote THEN <<Backslash, Quote>>
    ELSE IF ch = Backslash THEN <<Backslash, Backslash>>
    ELSE IF ch = Newline THEN <<Backslash, "n">>
    ELSE <<ch>>

RECURSIVE Escape(_)
Escape(s) == IF s = <<>> THEN <<>> ELSE EscapeChar(Head(s)) \o Escape(Tail(s))

\* the body of a basic string back to the string: <<>> when malformed, else <<s>>
RECURSIVE Unescape(_)
Unescape(b) ==
    IF b = <<>> THEN << <<>> >>
    ELSE IF Head(b) = Backslash
    THEN IF Len(b) < 2 \/ b[2] \notin {Quote, Backslash, "n"} THEN <<>>
         ELSE LET r == Unescape(SubSeq(b, 3, Len(b)))
                  ch == IF b[2] = "n" THEN Newline ELSE b[2]
              IN IF r = <<>> THEN <<>> ELSE << <<ch>> \o r[1] >>
    ELSE IF Head(b) \in {Quote, Newline} THEN <<>>
    ELSE LET r == Unescape(Tail(b))
         IN IF r = <<>> THEN <<>> ELSE << <<Head(b)>> \o r[1] >>

StrEntry(k, s) == [key |-> k, kind |-> "string", str |-> Escape(s), bool |-> FALSE, arr |-> <<>>]
BoolEntry(k, b) == [key |-> k, kind |-> "boolean", str |-> <<>>, bool |-> b, arr |-> <<>>]
ArrEntry(k, a) ==
    [key |-> k, kind |-> "array", str |-> <<>>, bool |-> FALSE,
     arr |-> [i \in DOMAIN a |-> Escape(a[i])]]

\* a text form written without escaping the strings
to_stringRaw(c) ==
    << [StrEntry("compiler", <<>>) EXCEPT !.str = c.compiler],
       [StrEntry("proj_name", <<>>) EXCEPT !.str = c.proj_name],
       [ArrEntry("flags", <<>>) EXCEPT !.arr = c.flags],
       BoolEntry("clean", c.clean),
       StrEntry("mode", IF c.mode = "Spawn" THEN SpawnName ELSE OutputName) >>

\* Serialize for CompilerMode: a unit variant is written as its name
SerMode(m) == IF m = "Spawn" THEN SpawnName ELSE OutputName

\* Compiler::to_string: the five fields in declaration order
to_string(c) ==
    << StrEntry("compiler", c.compiler),
       StrEntry("proj_name", c.proj_name),
       ArrEntry("flags", c.flags),
       BoolEntry("clean", c.clean),
       StrEntry("mode", SerMode(c.mode)) >>

Keys(t) == {t[i].key : i \in DOMAIN t}
Field(t, k) == t[CHOOSE i \in DOMAIN t : t[i].key = k]

\* Deserialize for String, Vec<String>, bool: <<>> on a type or syntax error
DeString(e) == IF e.kind = "string" THEN Unescape(e.str) ELSE <<>>
DeBool(e) == IF e.kind = "boolean" THEN <<e.bool>> ELSE <<>>
DeFlags(e) ==
    IF e.kind = "array" /\ \A i \in DOMAIN e.arr : Unescape(e.arr[i]) # <<>>
    THEN << [i \in DOMAIN e.arr |-> Unescape(e.arr[i])[1]] >>
    ELSE <<>>

\* a mode parser that falls back to Output on an unknown name
DeModeDefault(e) ==
    IF e.kind = "string" /\ Unescape(e.str) = <<SpawnName>> THEN <<"Spawn">> ELSE <<"Output">>

\* Deserialize for CompilerMode: the value must be a variant's name
DeMode(e) ==
    LET s == DeString(e)
    IN IF s = <<SpawnName>> THEN <<"Spawn">>
       ELSE IF s = <<OutputName>> THEN <<"Output">>
       ELSE <<>>

FieldNames == {"compiler", "proj_name", "flags", "clean", "mode"}

\* toml::from_str::<Compiler>: <<>> on a parse error, else <<c>>
from_str(t) ==
    IF \E i, j \in DOMAIN t : i # j /\ t[i].key = t[j].key THEN <<>>
    ELSE IF ~(FieldNames \subseteq Keys(t)) THEN <<>>
    ELSE LET c == DeString(Field(t, "compiler"))
             p == DeString(Field(t, "proj_name"))
             f == DeFlags(Field(t, "flags"))
             cl == DeBool(Field(t, "clean"))
             m == DeMode(Field(t, "mode"))
         IN IF c = <<>> \/ p = <<>> \/ f = <<>> \/ cl = <<>> \/ m = <<>> THEN <<>>
            ELSE << MkCompiler(c[1], p[1], f[1], cl[1], m[1]) >>

----------------------------------------------------------------------------
(* Paths and the file system *)

\* PathBuf::from(dir).join(file); a relative file name alone has dir = <<>>
Join(dir, file) == [dir |-> dir, file |-> file]

\* "compiler.toml" in the working directory, as from_file names it
CfgPath == Join(<<>>, CfgFile)
\* the configuration file written where from_file looks for it
ConfigPathCwd(c) == Join(<<>>, CfgFile)
\* <proj_name>/compiler.toml, as create_file names it
ConfigPath(c) == Join(c.proj_name, CfgFile)
\* out/<proj_name>.aux and out/<proj_name>.log, as compile names them
AuxPath(c) == Join(OutDir, c.proj_name \o AuxExt)
LogPath(c) == Join(OutDir, c.proj_name \o LogExt)

NoFile == [exists |-> FALSE, text |-> <<>>]
FileOf(t) == [exists |-> TRUE, text |-> t]

\* File::create can make a file only in a directory that exists and is writable
DirExists(d, ds) == d = <<>> \/ d \in ds

Access(op, kind, path, ok) == [op |-> op, kind |-> kind, path |-> path, ok |-> ok]

----------------------------------------------------------------------------
(* The values the model draws *)

\* project names: valid path segments and file base names (spec, data model)
ProjNames == {<<"demo">>, <<"report">>}
\* compiler executables a configuration may name, and those that can be started
Compilers == {Pdflatex, <<"nolatex">>}
Installed == {Pdflatex}
FlagVals == {<<"-interaction=nonstopmode">>, <<"-shell-escape">>}
FlagSeqs == SeqsUpTo(FlagVals, MaxFlags)

CfgSpace ==
    {MkCompiler(c, p, f, cl, m) :
        c \in Compilers, p \in ProjNames, f \in FlagSeqs, cl \in BOOLEAN, m \in CompilerMode}

\* the paths of the working directory that the model keeps track of
Paths ==
    {Join(<<>>, CfgFile)}
        \cup {Join(p, CfgFile) : p \in ProjNames}
        \cup {Join(OutDir, p \o e) : p \in ProjNames, e \in {AuxExt, LogExt}}

\* configuration files a user may have left in the working directory
SomeCfg == MkCompiler(Pdflatex, <<"demo">>, <<>>, TRUE, "Output")
SetMode(t, e) == [i \in DOMAIN t |-> IF t[i].key = "mode" THEN e ELSE t[i]]
BadModes ==
    { StrEntry("mode", <<"spawn">>), StrEntry("mode", <<"OUTPUT">>),
      StrEntry("mode", <<>>), BoolEntry("mode", TRUE) }
BadTexts ==
    {SetMode(to_string(SomeCfg), e) : e \in BadModes}
        \cup {<<>>, SubSeq(to_string(SomeCfg), 1, 4)}
UserCfgs == {c \in CfgSpace : c.compiler = Pdflatex}
UserTexts == {to_string(c) : c \in UserCfgs} \cup BadTexts

----------------------------------------------------------------------------
(* Persistence: new, from_file, create_file *)

InitCompile ==
    /\ pc = "Idle" /\ proc = "none" /\ status = 0 /\ cmd = <<>>
    /\ waited = "none" /\ notified = FALSE /\ result = "none"
InitPersist ==
    /\ lastOp = "none" /\ newArg = <<>> /\ prevOp = "none" /\ loadResult = "none"
    /\ saveResult = "none" /\ preCreate = FALSE
InitRT == text = <<>> /\ parsed = <<>>

Called(op) == lastOp' = op /\ prevOp' = lastOp

New(p) ==
    /\ pc = "Idle"
    /\ cfg' = <<new(p)>>
    /\ newArg' = <<p>>
    /\ io' = {}
    /\ Called("new")
    /\ UNCHANGED <<fs, dirs, loadResult, saveResult, preCreate, compileVars, rtVars>>

\* what from_file yields: the read fails, or the parse panics, or a value
LoadOutcome(f, readable) ==
    IF ~(f.exists /\ readable) THEN "IoErr"
    ELSE IF from_str(f.text) = <<>> THEN "ParsePanic"
    ELSE "Ok"

FromFile ==
    /\ pc = "Idle"
    /\ \E readable \in BOOLEAN :
          /\ io' = {Access("from_file", "read", CfgPath, fs[CfgPath].exists /\ readable)}
          /\ loadResult' = LoadOutcome(fs[CfgPath], readable)
    /\ cfg' = IF loadResult' = "Ok" THEN from_str(fs[CfgPath].text) ELSE cfg
    /\ pc' = IF loadResult' = "ParsePanic" THEN "Aborted" ELSE pc
    /\ Called("from_file")
    /\ UNCHANGED <<fs, dirs, newArg, saveResult, preCreate, proc, status, cmd, waited,
                   notified, result, rtVars>>

CreateFile ==
    /\ pc = "Idle"
    /\ cfg # <<>>
    /\ \E writable, written \in BOOLEAN :
          LET s == to_string(cfg[1])
              path == ConfigPath(cfg[1])
              created == DirExists(path.dir, dirs) /\ writable
          IN    /\ io' = {Access("create_file", "write", path, created)}
                /\ fs' = IF ~created THEN fs
                         ELSE [fs EXCEPT ![path] = FileOf(IF written THEN s ELSE <<>>)]
                /\ saveResult' = IF created /\ written THEN "Ok" ELSE "IoErr"
    /\ preCreate' = fs[CfgPath].exists
    /\ Called("create_file")
    /\ UNCHANGED <<cfg, dirs, newArg, loadResult, compileVars, rtVars>>

NextPersist == (\E p \in ProjNames : New(p)) \/ FromFile \/ CreateFile

PersistInit ==
    /\ cfg = <<>>
    /\ dirs \in SUBSET ProjNames
    /\ \E f \in {NoFile} \cup {FileOf(t) : t \in UserTexts} :
          fs = [p \in Paths |-> IF p = CfgPath THEN f ELSE NoFile]
    /\ io = {}
    /\ InitPersist /\ InitCompile /\ InitRT

SpecPersist == PersistInit /\ [][NextPersist]_vars

----------------------------------------------------------------------------
(* Compilation: output, spawn, compile *)

\* the Command that output() builds; its streams are captured
OutputCommand(c) ==
    [program |-> c.compiler,
     args |-> <<OutDirArg>> \o c.flags \o <<c.proj_name>>,
     stdio |-> "piped"]

\* spawn() with the flags given after the project name
SpawnCommandReordered(c) ==
    [program |-> c.compiler,
     args |-> <<OutDirArg, c.proj_name>> \o c.flags,
     stdio |-> "inherit"]

\* the Command that spawn() builds; its streams are inherited
SpawnCommand(c) ==
    [program |-> c.compiler,
     args |-> <<OutDirArg>> \o c.flags \o <<c.proj_name>>,
     stdio |-> "inherit"]

\* match self.mode in compile()
Dispatch(c) == IF c.mode = "Spawn" THEN SpawnCommand(c) ELSE OutputCommand(c)

\* the operating system starts a process only for an executable it finds
Startable(program) == program \in Installed

\* spawn() without the wait(): the process is left running
WaitReadyDetached(m, p) == m = "Spawn" \/ p = "exited"

\* output().await and spawn()...wait().await resume once the process has exited
WaitReady(m, p) == p = "exited"

\* clean-up that ignores the clean flag, and errors that are dropped
AfterWaitAlways(c) == "Cleaning"
AfterAuxIgnored(ok) == "CleaningLog"
AfterLogIgnored(ok) == "Done"

\* if self.clean { ... } after the process was awaited
AfterWait(c) == IF c.clean THEN "Cleaning" ELSE "Done"
\* remove_file(aux).await?
AfterAux(ok) == IF ok THEN "CleaningLog" ELSE "Failed"
\* remove_file(log).await?
AfterLog(ok) == IF ok THEN "Done" ELSE "Failed"

\* cprint!(...); Ok(()) when the workflow reaches its end, else the error
Finish(next) ==
    /\ pc' = next
    /\ notified' = (next = "Done")
    /\ result' = IF next = "Done" THEN "Ok" ELSE IF next = "Failed" THEN "IoErr" ELSE result

\* compile() up to the first await: the command is built and the process started;
\* expect() panics when it cannot be started
CompileStart ==
    /\ pc = "Idle"
    /\ cfg # <<>>
    /\ cmd' = <<Dispatch(cfg[1])>>
    /\ IF Startable(cfg[1].compiler)
       THEN proc' = "running" /\ pc' = "Invoking" /\ result' = result
       ELSE proc' = proc /\ pc' = "Failed" /\ result' = "Panic"
    /\ io' = {}
    /\ Called("compile")
    /\ UNCHANGED <<cfg, fs, dirs, newArg, loadResult, saveResult, preCreate,
                   status, waited, notified, rtVars>>

\* the compiler process runs to its end: it may write the aux and log files and
\* exits with a status of its own choosing
ProcExit(st, mkAux, mkLog) ==
    /\ proc = "running"
    /\ proc' = "exited"
    /\ status' = st
    /\ fs' = [fs EXCEPT ![AuxPath(cfg[1])] = IF mkAux THEN FileOf(<<>>) ELSE @,
                        ![LogPath(cfg[1])] = IF mkLog THEN FileOf(<<>>) ELSE @]
    /\ UNCHANGED <<cfg, dirs, io, persistVars, pc, cmd, waited, notified, result, rtVars>>

\* the await returns Ok(status), whatever the status is
CompileAwait ==
    /\ pc = "Invoking"
    /\ WaitReady(cfg[1].mode, proc)
    /\ waited' = "Ok"
    /\ Finish(AfterWait(cfg[1]))
    /\ UNCHANGED <<cfg, fs, dirs, io, persistVars, proc, status, cmd, rtVars>>

\* the await returns an I/O error: expect() panics
CompileWaitFail ==
    /\ pc = "Invoking"
    /\ waited' = "Err"
    /\ pc' = "Failed"
    /\ result' = "Panic"
    /\ UNCHANGED <<cfg, fs, dirs, io, persistVars, proc, status, cmd, notified, rtVars>>

\* remove_file succeeds only on a file that exists and may be removed
RemoveAux ==
    /\ pc = "Cleaning"
    /\ \E permitted \in BOOLEAN :
          LET path == AuxPath(cfg[1])
              ok == fs[path].exists /\ permitted
          IN /\ io' = io \cup {Access("compile", "remove", path, ok)}
             /\ fs' = IF ok THEN [fs EXCEPT ![path] = NoFile] ELSE fs
             /\ Finish(AfterAux(ok))
    /\ UNCHANGED <<cfg, dirs, persistVars, proc, status, cmd, waited, rtVars>>

RemoveLog ==
    /\ pc = "CleaningLog"
    /\ \E permitted \in BOOLEAN :
          LET path == LogPath(cfg[1])
              ok == fs[path].exists /\ permitted
          IN /\ io' = io \cup {Access("compile", "remove", path, ok)}
             /\ fs' = IF ok THEN [fs EXCEPT ![path] = NoFile] ELSE fs
             /\ Finish(AfterLog(ok))
    /\ UNCHANGED <<cfg, dirs, persistVars, proc, status, cmd, waited, rtVars>>

ExitCodes == {0, 1}

Next ==
    \/ CompileStart
    \/ \E st \in ExitCodes, mkAux, mkLog \in BOOLEAN : ProcExit(st, mkAux, mkLog)
    \/ CompileAwait
    \/ CompileWaitFail
    \/ RemoveAux
    \/ RemoveLog

\* a loaded configuration, and an out directory that may hold files of an
\* earlier compilation
Init ==
    /\ cfg \in {<<c>> : c \in CfgSpace}
    /\ dirs = ProjNames
    /\ \E old \in SUBSET {AuxPath(cfg[1]), LogPath(cfg[1])} :
          fs = [p \in Paths |-> IF p \in old THEN FileOf(<<>>) ELSE NoFile]
    /\ io = {}
    /\ InitPersist /\ InitCompile /\ InitRT

Spec == Init /\ [][Next]_vars

----------------------------------------------------------------------------
(* Round trip of the text form: to_string, then the parser of from_file *)

RTChars == {"n", Quote, Backslash, Newline}
RTStrs == SeqsUpTo(RTChars, MaxStr)
\* strings drawn for the project name and the flags
RTSample == {<<"n">>, <<Backslash, "n">>, <<Quote>>}

Serialize ==
    /\ cfg # <<>>
    /\ text = <<>>
    /\ text' = <<to_string(cfg[1])>>
    /\ UNCHANGED <<cfg, fs, dirs, io, persistVars, compileVars, parsed>>

Parse ==
    /\ text # <<>>
    /\ parsed = <<>>
    /\ parsed' = <<from_str(text[1])>>
    /\ UNCHANGED <<cfg, fs, dirs, io, persistVars, compileVars, text>>

NextRT == Serialize \/ Parse

RTInit ==
    /\ cfg \in {<<MkCompiler(c, p, f, cl, m)>> :
                   c \in RTStrs, p \in RTSample, f \in SeqsUpTo(RTSample, MaxFlags),
                   cl \in BOOLEAN, m \in CompilerMode}
    /\ dirs = {}
    /\ fs = [p \in Paths |-> NoFile]
    /\ io = {}
    /\ InitPersist /\ InitCompile /\ InitRT

SpecRT == RTInit /\ [][NextRT]_vars

----------------------------------------------------------------------------
(* Properties of compile(), checked under Spec *)

Removes == {a \in io : a.kind = "remove"}
Attempted(path) == \E a \in Removes : a.path = path
Removed(path) == \E a \in Removes : a.path = path /\ a.ok
FailedRemove(path) == \E a \in Removes : a.path = path /\ ~a.ok
AuxFile == [dir |-> OutDir, file |-> cfg[1].proj_name \o AuxExt]
LogFile == [dir |-> OutDir, file |-> cfg[1].proj_name \o LogExt]

C2_NonZeroExitIsFatal ==
    (waited = "Ok" /\ status # 0) =>
        (pc = "Failed" /\ Removes = {} /\ ~notified)

\* C3 as stated: with clean = false a successful compile attempts no deletion;
\* with clean = true, once the compiler has exited with status 0 and compile()
\* has ended, both the aux and the log deletion were attempted.
C3_BothAttempted ==
    /\ (~cfg[1].clean /\ result = "Ok") => Removes = {}
    /\ (cfg[1].clean /\ waited = "Ok" /\ status = 0 /\ pc \in {"Done", "Failed"}) =>
          (Attempted(AuxFile) /\ Attempted(LogFile))

\* C3 as amended: with clean = false no deletion is ever attempted; with
\* clean = true, once the compiler has exited with status 0 and compile() has
\* ended, the aux deletion was attempted, and the log deletion was attempted
\* exactly when the aux deletion succeeded.
C3_CleanGating ==
    /\ ~cfg[1].clean => Removes = {}
    /\ (cfg[1].clean /\ waited = "Ok" /\ status = 0 /\ pc \in {"Done", "Failed"}) =>
          (Attempted(AuxFile) /\ (Attempted(LogFile) <=> Removed(AuxFile)))

C3_Witness ==
    /\ cfg[1].clean /\ waited = "Ok" /\ status = 0 /\ pc = "Failed"
    /\ FailedRemove(AuxFile) /\ ~Attempted(LogFile) /\ fs[LogFile].exists

\* what a state of compile() owes to the steps before it
C4_StateOk ==
    /\ notified =>
          /\ result = "Ok" /\ pc = "Done"
          /\ cmd # <<>> /\ cmd[1].program \in Installed
          /\ waited = "Ok"
          /\ cfg[1].clean => (Removed(AuxFile) /\ Removed(LogFile))
    /\ ( \/ (cmd # <<>> /\ cmd[1].program \notin Installed)
         \/ waited = "Err"
         \/ \E a \in Removes : ~a.ok )
          => (pc = "Failed" /\ ~notified /\ result \in {"Panic", "IoErr"})
    /\ (cmd # <<>> /\ cfg[1].compiler \notin Installed)
          => (Removes = {} /\ ~notified /\ result = "Panic" /\ proc = "none")

\* what compile() may still do once it has failed
C4_AbortStep ==
    pc = "Failed" =>
        (pc' = "Failed" /\ io' = io /\ notified' = notified /\ result' = result
         /\ cmd' = cmd /\ waited' = waited)

\* C4: the success message is printed only after the process was started and
\* awaited and, when clean is set, both files were removed; a failed start, a
\* failed wait or a failed deletion leaves compile() in Failed without the
\* message; once in Failed, compile() does nothing more; and a compiler that
\* cannot be started leads to a panic with no deletion and no message.
C4_FailureAborts == [](C4_StateOk) /\ [][C4_AbortStep]_vars

C4_Witness ==
    /\ cmd # <<>> /\ cfg[1].compiler \notin Installed
    /\ cfg[1].clean /\ fs[AuxFile].exists /\ fs[LogFile].exists
    /\ pc = "Failed"

\* C6: while the compiler process is running, in either mode, compile() has
\* attempted no deletion, has not printed the success message and has not
\* returned (neither Ok nor an I/O error); it is awaiting the process, or has
\* panicked on a failed wait.
C6_WaitsForExit ==
    proc = "running" =>
        /\ pc \in {"Invoking", "Failed"}
        /\ Removes = {}
        /\ ~notified
        /\ result \notin {"Ok", "IoErr"}
        /\ pc = "Failed" => (waited = "Err" /\ result = "Panic")

C6_Witness ==
    /\ proc = "running" /\ pc = "Invoking"
    /\ cfg[1].mode = "Spawn" /\ cfg[1].clean
    /\ fs[AuxFile].exists

\* C10: the aux deletion comes first; the log deletion is attempted only once
\* the aux file was removed, so a removed log file implies a removed aux file;
\* and a failed aux deletion ends compile() with an I/O error and no attempt on
\* the log file.
C10_CleanupOrder ==
    /\ pc = "Cleaning" => Removes = {}
    /\ Attempted(LogFile) => Removed(AuxFile)
    /\ Removed(LogFile) => (Removed(AuxFile) /\ ~fs[AuxFile].exists)
    /\ FailedRemove(AuxFile) =>
          (pc = "Failed" /\ result = "IoErr" /\ ~Attempted(LogFile) /\ ~notified)

C10_Witness ==
    /\ FailedRemove(AuxFile) /\ ~fs[AuxFile].exists
    /\ fs[LogFile].exists /\ result = "IoErr"

----------------------------------------------------------------------------
(* Properties of the text form, checked under SpecRT *)

----------------------------------------------------------------------------
(* Properties of new, from_file and create_file, checked under SpecPersist *)

WorkingDirCfg == [dir |-> <<>>, file |-> CfgFile]
ProjectCfg == [dir |-> cfg[1].proj_name, file |-> CfgFile]

\* the file gives a mode that is not the string "Spawn" or "Output"
UnknownMode(t) ==
    \E i \in DOMAIN t :
        /\ t[i].key = "mode"
        /\ ~(t[i].kind = "string" /\ t[i].str \in {SpawnName, OutputName})

\* C7: after from_file, a missing or unreadable ./compiler.toml gave an I/O
\* error and the caller goes on; a file whose mode is not exactly "Spawn" or
\* "Output" never gave a configuration, and once read it gave the parse
\* failure, which aborts the caller and so differs from the I/O error; and a
\* successful load took the mode that the file names.
C7_ModeParse ==
    lastOp = "from_file" =>
        LET f == fs[WorkingDirCfg]
            readFailed == \E a \in io : a.kind = "read" /\ ~a.ok
        IN /\ ~f.exists => loadResult = "IoErr"
           /\ loadResult = "IoErr" => (readFailed /\ pc = "Idle")
           /\ (f.exists /\ UnknownMode(f.text)) =>
                 /\ loadResult # "Ok"
                 /\ ~readFailed => loadResult = "ParsePanic"
           /\ loadResult = "ParsePanic" => pc = "Aborted"
           /\ loadResult = "Ok" =>
                 /\ cfg # <<>>
                 /\ \E i \in DOMAIN f.text :
                       /\ f.text[i].key = "mode" /\ f.text[i].kind = "string"
                       /\ f.text[i].str =
                             (IF cfg[1].mode = "Spawn" THEN <<"Spawn">> ELSE <<"Output">>)
           /\ loadResult \in {"Ok", "IoErr", "ParsePanic"}

C7_Witness ==
    /\ lastOp = "from_file" /\ loadResult = "ParsePanic"
    /\ fs[WorkingDirCfg].exists
    /\ \E i \in DOMAIN fs[WorkingDirCfg].text :
          /\ fs[WorkingDirCfg].text[i].key = "mode"
          /\ fs[WorkingDirCfg].text[i].str = <<"spawn">>
    /\ prevOp = "new"

\* the value new(p) leaves with the caller
C8_Value ==
    lastOp = "new" =>
        /\ newArg # <<>>
        /\ cfg = << [compiler |-> <<"pdflatex">>, proj_name |-> newArg[1],
                     flags |-> <<>>, clean |-> TRUE, mode |-> "Output"] >>

\* the effect of a call of new
C8_Step == lastOp' = "new" => (fs' = fs /\ io' = {} /\ pc' = "Idle" /\ dirs' = dirs)

\* C8: after new(p) the configuration is pdflatex, p, no flags, clean = true,
\* mode Output; the call touches no file, attempts no file access and leaves
\* the caller running.
C8_NewDefaults == [](C8_Value) /\ [][C8_Step]_vars

C8_Witness ==
    /\ lastOp = "new" /\ newArg = << <<"report">> >>
    /\ prevOp = "from_file" /\ loadResult = "Ok"
    /\ fs[[dir |-> <<"report">>, file |-> CfgFile]].exists

\* the effect of a call of create_file
C9_CreateStep ==
    lastOp' = "create_file" =>
        /\ \A p \in Paths : p # ProjectCfg => fs'[p] = fs[p]
        /\ fs'[ProjectCfg] # fs[ProjectCfg] => fs'[ProjectCfg].exists
        /\ saveResult' = "Ok" =>
              fs'[ProjectCfg] = [exists |-> TRUE, text |-> to_string(cfg[1])]
        /\ \A a \in io' : a.path = ProjectCfg /\ a.kind = "write"
        /\ cfg[1].proj_name \notin dirs => (fs' = fs /\ saveResult' = "IoErr")

\* the effect of a call of from_file
C9_LoadStep ==
    lastOp' = "from_file" =>
        /\ fs' = fs
        /\ \A a \in io' : a.path = WorkingDirCfg /\ a.kind = "read"

\* from_file does not find what create_file wrote
C9_Asymmetry ==
    (lastOp = "from_file" /\ prevOp = "create_file" /\ ~preCreate) =>
        loadResult = "IoErr"

=============================================================================
